---- MODULE Spec2Model ----
(***************************************************************************)
(* Model of the Google Play notification service of src/index.js: the      *)
(* stores and their persisted snapshots, the Pub/Sub pull and streaming    *)
(* handlers, the batch enrichment (POST /subscriptions/fetch) and the      *)
(* single lookup (POST /subscriptions/lookup).  An async handler is cut    *)
(* at its await points: one action per synchronous segment.                *)
(***************************************************************************)
EXTENDS Integers, Sequences, FiniteSets, TLC

\* ------------------------------------------------------------------ bounds
\* Largest number of entries the pull store is let grow to.
MaxPull == 2
\* Largest number of messages one synchronous pull returns in the model
\* (the code asks for at most 10, index.js:138).
MaxBatch == 2
\* Largest value of the millisecond clock (Date.now()).
MaxClock == 1
\* Largest number of failures of the environment (a failed file write, a
\* failed transport call) in one behaviour.
MaxFaults == 1

\* Largest number of POST /subscriptions/fetch requests in one behaviour.
MaxFetch == 2
\* Largest number of entries the push store and the legacy store are let grow to.
MaxPush == 2
MaxData == 2
\* Largest number of entries of a push store or legacy store loaded from its file.
MaxLoaded == 1

\* ------------------------------------------------------------ JS values
NULL == "null"
UNDEF == "undefined"
\* The falsy scalars of the model: x || null yields null for them.
Falsy == {NULL, UNDEF, ""}
Truthy(x) == x \notin Falsy
OrNull(x) == IF Truthy(x) THEN x ELSE NULL

\* ------------------------------------------------- NOTIFICATION_TYPES
NOTIFICATION_TYPES ==
  [c \in {"1", "2", "3", "4", "5", "6", "7", "8", "9", "10", "11", "12", "13", "20"} |->
     CASE c = "1" -> "SUBSCRIPTION_RECOVERED"
       [] c = "2" -> "SUBSCRIPTION_RENEWED"
       [] c = "3" -> "SUBSCRIPTION_CANCELED"
       [] c = "4" -> "SUBSCRIPTION_PURCHASED"
       [] c = "5" -> "SUBSCRIPTION_ON_HOLD"
       [] c = "6" -> "SUBSCRIPTION_IN_GRACE_PERIOD"
       [] c = "7" -> "SUBSCRIPTION_RESTARTED"
       [] c = "8" -> "SUBSCRIPTION_PRICE_CHANGE_CONFIRMED"
       [] c = "9" -> "SUBSCRIPTION_DEFERRED"
       [] c = "10" -> "SUBSCRIPTION_PAUSED"
       [] c = "11" -> "SUBSCRIPTION_PAUSE_SCHEDULE_CHANGED"
       [] c = "12" -> "SUBSCRIPTION_REVOKED"
       [] c = "13" -> "SUBSCRIPTION_EXPIRED"
       [] c = "20" -> "SUBSCRIPTION_PENDING_PURCHASE_CANCELED"]

\* Property keys every object literal inherits from Object.prototype: a lookup
\* of one of them on NOTIFICATION_TYPES yields the inherited member, which is
\* truthy (a function, or Object.prototype itself for __proto__).
InheritedKeys ==
  {"constructor", "toString", "toLocaleString", "valueOf", "hasOwnProperty",
   "isPrototypeOf", "propertyIsEnumerable", "__proto__", "__defineGetter__",
   "__defineSetter__", "__lookupGetter__", "__lookupSetter__"}

\* A mapping that passes an unmapped code through.
TypeNameOrCode(code) ==
  IF code \in DOMAIN NOTIFICATION_TYPES THEN NOTIFICATION_TYPES[code] ELSE code

\* NOTIFICATION_TYPES[notificationType] || 'UNKNOWN' (the code is the property
\* key, so a number and its decimal string name the same entry, and a missing
\* code is the key "undefined").  An inherited key yields the inherited member,
\* written "[inherited <key>]" here; no message of the model carries such a key.
TypeName(code) ==
  IF code \in DOMAIN NOTIFICATION_TYPES THEN NOTIFICATION_TYPES[code]
  ELSE IF code \in InheritedKeys THEN "[inherited " \o code \o "]"
  ELSE "UNKNOWN"

\* ------------------------------------------------------- time helpers
\* Time values are written as the decimal string of their epoch milliseconds
\* (they exceed the integers of the checker), "NaN" for an invalid date.
\* new Date(string): an ISO-8601 string is parsed, a string of digits is not.
DateParse(d) ==
  CASE d = "2024-01-01T00:00:00Z" -> "1704067200000"
    [] d = "2024-02-01T00:00:00Z" -> "1706745600000"
    [] OTHER -> "NaN"

\* parseInt(string): the longest prefix that is an integer, NaN when none.
ParseInt(m) ==
  CASE m \in {"1704067200000", "1706745600000", "1700000000000"} -> m
    [] m \in {"2024-01-01T00:00:00Z", "2024-02-01T00:00:00Z"} -> "2024"
    [] OTHER -> "NaN"

\* toLocaleString('en-IN', {timeZone: 'Asia/Kolkata'}) of the date of time
\* value ms.
LocaleIST(ms) ==
  CASE ms = "1704067200000" -> "1/1/2024, 5:30:00 am"
    [] ms = "1706745600000" -> "1/2/2024, 5:30:00 am"
    [] ms = "1700000000000" -> "15/11/2023, 3:43:20 am"
    [] ms = "2024" -> "1/1/1970, 5:30:02 am"
    [] OTHER -> "Invalid Date"

toIST(date) ==
  IF ~Truthy(date) THEN NULL ELSE LocaleIST(DateParse(date)) \o " IST"

millisToIST(millis) ==
  IF ~Truthy(millis) THEN NULL ELSE LocaleIST(ParseInt(millis)) \o " IST"

\* ------------------------------------------------- transport messages
\* The bytes of the three Pub/Sub messages of the model.
DataPurchased ==
  "{\"packageName\":\"com.x\",\"eventTimeMillis\":\"1700000000000\",\"subscriptionNotification\":{\"notificationType\":4,\"purchaseToken\":\"tok1\",\"subscriptionId\":\"sub1\"}}"
DataUnmapped ==
  "{\"packageName\":\"com.x\",\"subscriptionNotification\":{\"notificationType\":999,\"purchaseToken\":\"tok2\"}}"
DataText == "not json"

MsgIds == {"m1", "m2", "m3"}

MsgData(mid) ==
  CASE mid = "m1" -> DataPurchased
    [] mid = "m2" -> DataUnmapped
    [] OTHER -> DataText

\* A decoded payload.  json: JSON.parse succeeded; text: the string kept when
\* it did not; sn: whether the parsed object has a subscriptionNotification.
StringData(s) ==
  [json |-> FALSE, text |-> s, packageName |-> UNDEF, eventTimeMillis |-> UNDEF,
   sn |-> FALSE, notificationType |-> UNDEF, purchaseToken |-> UNDEF,
   subscriptionId |-> UNDEF]

IsJSON(s) == s \in {DataPurchased, DataUnmapped}

JSONParse(s) ==
  CASE s = DataPurchased ->
         [json |-> TRUE, text |-> "", packageName |-> "com.x",
          eventTimeMillis |-> "1700000000000", sn |-> TRUE,
          notificationType |-> "4", purchaseToken |-> "tok1",
          subscriptionId |-> "sub1"]
    [] s = DataUnmapped ->
         [json |-> TRUE, text |-> "", packageName |-> "com.x",
          eventTimeMillis |-> UNDEF, sn |-> TRUE,
          notificationType |-> "999", purchaseToken |-> "tok2",
          subscriptionId |-> UNDEF]

\* A decode that never parses: the UTF-8 string is kept for every message.
DecodePullAsText(bytes) == StringData(bytes)

\* try { JSON.parse(data.toString('utf8')) } catch { data.toString('utf8') }
DecodePull(bytes) == IF IsJSON(bytes) THEN JSONParse(bytes) ELSE StringData(bytes)

\* A filter that lets every notification through.
QualifiesAll(n) == TRUE

\* data?.subscriptionNotification is truthy
Qualifies(n) == n.data.json /\ n.data.sn

\* ------------------------------------------------- upstream responses
NoDetails ==
  [present |-> FALSE, hasExternalIds |-> FALSE, extAccountId |-> UNDEF,
   extProfileId |-> UNDEF, subscriptionState |-> UNDEF, lineItems |-> << >>,
   startTime |-> UNDEF, obfuscatedExternalAccountId |-> UNDEF,
   obfuscatedExternalProfileId |-> UNDEF, expiryTimeMillis |-> UNDEF,
   startTimeMillis |-> UNDEF]

\* A subscriptionsv2.get result: identifiers nested, one line item.
V2Full ==
  [NoDetails EXCEPT !.present = TRUE, !.hasExternalIds = TRUE,
     !.extAccountId = "acc-v2", !.extProfileId = "prof-v2",
     !.subscriptionState = "SUBSCRIPTION_STATE_ACTIVE",
     !.lineItems = << "2024-02-01T00:00:00Z" >>,
     !.startTime = "2024-01-01T00:00:00Z"]

\* A subscriptionsv2.get result with no identifiers and no line items.
V2Bare ==
  [NoDetails EXCEPT !.present = TRUE,
     !.subscriptionState = "SUBSCRIPTION_STATE_EXPIRED"]

\* A subscriptions.get (v1) result: identifiers and times at the top level.
V1Full ==
  [NoDetails EXCEPT !.present = TRUE,
     !.obfuscatedExternalAccountId = "acc-v1",
     !.obfuscatedExternalProfileId = "prof-v1",
     !.expiryTimeMillis = "1706745600000",
     !.startTimeMillis = "1704067200000"]

\* What getSubscriptionDetailsV2 / V1 can return (null when the call failed).
V2Results == {NoDetails, V2Full, V2Bare}
V1Results == {NoDetails, V1Full}

\* ------------------------------------------------------------- entries
\* Date.now().toString() + '-' + messageId
EntryId(t, mid) == ToString(t) \o "-" \o mid

\* The entry POST /pull (type "pull") and the stream callback (type
\* "pull-stream") build for a message received at clock value t.
PullEntry(t, mid, type) ==
  [id |-> EntryId(t, mid), type |-> type, messageId |-> mid,
   data |-> DecodePull(MsgData(mid))]

NoEntry == [id |-> "", type |-> "", messageId |-> "", data |-> StringData("")]

\* The fields the batch run extracts from the upstream response (index.js
\* 413-443): v2 reads the nested identifiers, the state and the first line
\* item; v1 reads the top-level fields and leaves the state null.
ExtractV1(d) ==
  [obfuscatedAccountId |-> OrNull(d.obfuscatedExternalAccountId),
   obfuscatedProfileId |-> OrNull(d.obfuscatedExternalProfileId),
   state |-> NULL,
   startTime |-> OrNull(d.startTimeMillis),
   startTimeIST |-> millisToIST(OrNull(d.startTimeMillis)),
   expiryTime |-> OrNull(d.expiryTimeMillis),
   expiryTimeIST |-> millisToIST(OrNull(d.expiryTimeMillis))]

\* A v2 extraction that reads the top-level v1 fields.
ExtractV2AsV1(d) == ExtractV1(d)

ExtractV2(d) ==
  LET acc == IF d.hasExternalIds THEN d.extAccountId ELSE UNDEF
      prof == IF d.hasExternalIds THEN d.extProfileId ELSE UNDEF
      expiry == IF Len(d.lineItems) > 0 THEN OrNull(d.lineItems[1]) ELSE NULL
  IN [obfuscatedAccountId |-> OrNull(acc),
      obfuscatedProfileId |-> OrNull(prof),
      state |-> OrNull(d.subscriptionState),
      startTime |-> OrNull(d.startTime),
      startTimeIST |-> toIST(OrNull(d.startTime)),
      expiryTime |-> expiry,
      expiryTimeIST |-> IF Len(d.lineItems) > 0 THEN toIST(expiry) ELSE NULL]

NoFields ==
  [obfuscatedAccountId |-> NULL, obfuscatedProfileId |-> NULL, state |-> NULL,
   startTime |-> NULL, startTimeIST |-> NULL, expiryTime |-> NULL,
   expiryTimeIST |-> NULL]

ExtractFields(apiVersion, d) ==
  IF ~d.present THEN NoFields
  ELSE IF apiVersion = "v2" THEN ExtractV2(d) ELSE ExtractV1(d)

\* enrichedEntry (index.js 445-485) for notification n, built at clock value t.
EnrichedEntry(n, apiVersion, d, t) ==
  LET f == ExtractFields(apiVersion, d)
  IN [id |-> EntryId(t, n.messageId),
      messageId |-> n.messageId,
      notification |->
        [type |-> n.data.notificationType,
         typeName |-> TypeName(n.data.notificationType),
         eventTime |-> n.data.eventTimeMillis,
         eventTimeIST |-> millisToIST(n.data.eventTimeMillis)],
      packageName |-> n.data.packageName,
      subscriptionId |-> n.data.subscriptionId,
      purchaseToken |-> n.data.purchaseToken,
      user |-> [obfuscatedAccountId |-> f.obfuscatedAccountId,
                obfuscatedProfileId |-> f.obfuscatedProfileId],
      subscription |-> [state |-> f.state, startTime |-> f.startTime,
                        startTimeIST |-> f.startTimeIST,
                        expiryTime |-> f.expiryTime,
                        expiryTimeIST |-> f.expiryTimeIST],
      apiResponse |-> d,
      apiVersion |-> apiVersion]

\* ---------------------------------------------------------------- state
VARIABLES
  projectId,           \* PROJECT_ID is set (index.js:46)
  now,                 \* the last value Date.now() returned
  faults,              \* failures of the environment so far
  fetches,             \* POST /subscriptions/fetch requests so far
  pushStore, pushFile, \* pushStore and push-data.json
  store, dataFile,     \* the legacy store and data.json
  pullStore, pullFile, \* pullStore and pull-data.json
  subscriptionsStore, subsFile, \* subscriptionsStore and subscriptions-data.json
  created,             \* history: the messageIds a record was ever pushed for (487)
  acked,               \* transport: the messages acknowledged so far
  pullListener,        \* pullListener is not null
  handlers,            \* subscriptions that have a 'message' handler registered
  pullH,               \* the POST /pull request in progress
  runs,                \* the POST /subscriptions/fetch requests in progress
  lookup,              \* the POST /subscriptions/lookup request in progress
  resp                 \* how the last handler ended: the response sent, and
                       \* whether an exception left the handler function

clockVars == <<projectId, now, faults>>
pushVars == <<pushStore, pushFile, store, dataFile>>
pullVars == <<pullStore, pullFile>>
subsVars == <<subscriptionsStore, subsFile, created>>
listenVars == <<pullListener, handlers>>
vars == <<projectId, now, faults, fetches, pushStore, pushFile, store, dataFile,
          pullStore, pullFile, subscriptionsStore, subsFile, created, acked,
          pullListener, handlers, pullH, runs, lookup, resp>>

RunIds == {1, 2}

\* saveData either rewrites the whole file or throws.
SaveOutcomes == IF faults < MaxFaults THEN {TRUE, FALSE} ELSE {TRUE}
\* A file writeFileSync opened (and so truncated) and then failed to fill: a
\* proper prefix of the new JSON text, which JSON.parse rejects.
Truncated == << [truncated |-> TRUE] >>
\* The file after saveData(file, new): the new snapshot when it returned; when
\* it threw, the old content (the open failed) or a truncated file (a write
\* failed after the open).
Written(ok, new, old) == IF ok THEN {new} ELSE {old, Truncated}
\* A call to the transport either succeeds or throws.
CallOutcomes == IF faults < MaxFaults THEN {TRUE, FALSE} ELSE {TRUE}
Fault(ok) == IF ok THEN faults ELSE faults + 1

\* Date.now(): never goes back, may return the same value twice.
ClockReads == now..MaxClock

IdlePull == [pc |-> "idle", batch |-> << >>, entries |-> << >>]

IdleRun ==
  [pc |-> "idle", idx |-> 0, cur |-> NoEntry, calls |-> << >>,
   results |-> << >>, appended |-> 0, second |-> FALSE,
   subsAtStart |-> << >>]

IdleLookup ==
  [pc |-> "idle", packageName |-> UNDEF, purchaseToken |-> UNDEF,
   subscriptionId |-> UNDEF, calls |-> << >>]

NoResp == [op |-> "none", status |-> 0, escaped |-> FALSE]

Init ==
  /\ projectId \in BOOLEAN
  /\ now = 0
  /\ faults = 0
  /\ fetches = 0
  /\ pushStore = << >> /\ pushFile = << >>
  /\ store = << >> /\ dataFile = << >>
  /\ pullStore = << >> /\ pullFile = << >>
  /\ subscriptionsStore = << >> /\ subsFile = << >>
  /\ created = {}
  /\ acked = {}
  /\ pullListener = FALSE
  /\ handlers = 0
  /\ pullH = IdlePull
  /\ runs = [i \in RunIds |-> IdleRun]
  /\ lookup = IdleLookup
  /\ resp = NoResp

\* No async handler is between two of its await points.
Quiet ==
  /\ pullH.pc = "idle"
  /\ \A i \in RunIds : runs[i].pc = "idle"
  /\ lookup.pc = "idle"

\* --------------------------------------------------- POST /pull (123-201)
\* Sequences of k distinct messages the transport still holds.
Batches(k) ==
  {b \in [1..k -> MsgIds \ acked] : \A i, j \in 1..k : i # j => b[i] # b[j]}

\* The clock values read for the k messages of a batch, one per message.
ClockSeqs(k) ==
  {ts \in [1..k -> ClockReads] : \A i, j \in 1..k : i < j => ts[i] <= ts[j]}

PullResp(status, entries) ==
  [op |-> "pull", status |-> status, entries |-> entries, escaped |-> FALSE]

\* A request that goes to the transport without looking at PROJECT_ID.
PullRequestUnguarded ==
  /\ pullH.pc = "idle"
  /\ pullH' = [IdlePull EXCEPT !.pc = "pulling"]
  /\ UNCHANGED <<fetches, clockVars, pushVars, pullVars, subsVars, acked, listenVars,
                 runs, lookup, resp>>

\* The request arrives: 400 without a project id, else subClient.pull is awaited.
PullRequest ==
  /\ pullH.pc = "idle"
  /\ IF projectId
       THEN pullH' = [IdlePull EXCEPT !.pc = "pulling"] /\ UNCHANGED resp
       ELSE resp' = PullResp(400, << >>) /\ UNCHANGED pullH
  /\ UNCHANGED <<fetches, clockVars, pushVars, pullVars, subsVars, acked, listenVars,
                 runs, lookup>>

\* subClient.pull threw: the catch answers 500.
PullFails ==
  /\ pullH.pc = "pulling"
  /\ faults < MaxFaults
  /\ faults' = faults + 1
  /\ pullH' = IdlePull
  /\ resp' = PullResp(500, << >>)
  /\ UNCHANGED <<fetches, projectId, now, pushVars, pullVars, subsVars, acked,
                 listenVars, runs, lookup>>

\* subClient.pull returned no message: close is awaited next.
PullReturnsNone ==
  /\ pullH.pc = "pulling"
  /\ pullH' = [pullH EXCEPT !.pc = "closingEmpty"]
  /\ UNCHANGED <<fetches, clockVars, pushVars, pullVars, subsVars, acked, listenVars,
                 runs, lookup, resp>>

\* subClient.pull returned messages: every one is decoded and pushed on
\* pullStore (151-175), then acknowledge is awaited.
PullReturns ==
  /\ pullH.pc = "pulling"
  /\ \E k \in 1..MaxBatch :
       /\ Len(pullStore) + k <= MaxPull
       /\ \E b \in Batches(k), ts \in ClockSeqs(k) :
            LET es == [i \in 1..k |-> PullEntry(ts[i], b[i], "pull")]
            IN /\ pullStore' = pullStore \o es
               /\ now' = ts[k]
               /\ pullH' = [pullH EXCEPT !.pc = "acking", !.batch = b,
                                         !.entries = es]
  /\ UNCHANGED <<fetches, projectId, faults, pushVars, pullFile, subsVars, acked,
                 listenVars, runs, lookup, resp>>

\* subClient.acknowledge returned, or threw and the catch answers 500 (177-183).
AckReturns ==
  /\ pullH.pc = "acking"
  /\ \E ok \in CallOutcomes :
       /\ faults' = Fault(ok)
       /\ acked' = IF ok THEN acked \cup {pullH.batch[i] : i \in 1..Len(pullH.batch)}
                   ELSE acked
       /\ pullH' = IF ok THEN [pullH EXCEPT !.pc = "closing"] ELSE IdlePull
       /\ resp' = IF ok THEN resp ELSE PullResp(500, << >>)
  /\ UNCHANGED <<fetches, projectId, now, pushVars, pullVars, subsVars, listenVars,
                 runs, lookup>>

\* subClient.close returned after a non-empty pull: saveData, then the 200
\* response (185-192); a throw of close or of saveData is answered 500 by the
\* catch, and a throw of close skips saveData.
CloseReturns ==
  /\ pullH.pc = "closing"
  /\ \E closed \in CallOutcomes :
       \E ok \in (IF closed THEN SaveOutcomes ELSE {FALSE}) :
         /\ faults' = Fault(ok)
         /\ pullFile' \in (IF closed THEN Written(ok, pullStore, pullFile)
                                     ELSE {pullFile})
         /\ resp' = IF ok THEN PullResp(200, pullH.entries) ELSE PullResp(500, << >>)
  /\ pullH' = IdlePull
  /\ UNCHANGED <<fetches, projectId, now, pushVars, pullStore, subsVars, acked,
                 listenVars, runs, lookup>>

\* subClient.close returned after an empty pull: 'No new messages' (143-146),
\* or threw and the catch answers 500.
CloseEmptyReturns ==
  /\ pullH.pc = "closingEmpty"
  /\ \E closed \in CallOutcomes :
       /\ faults' = Fault(closed)
       /\ resp' = PullResp(IF closed THEN 200 ELSE 500, << >>)
  /\ pullH' = IdlePull
  /\ UNCHANGED <<fetches, projectId, now, pushVars, pullVars, subsVars, acked,
                 listenVars, runs, lookup>>

\* ------------------------------------- POST /pull/start, /pull/stop
ListenResp(op, status, message) ==
  [op |-> op, status |-> status, message |-> message, escaped |-> FALSE]

\* A start that does not look at pullListener.
PullStartUnguarded ==
  /\ IF ~projectId
       THEN /\ resp' = ListenResp("start", 400, "GCP_PROJECT_ID environment variable not set")
            /\ UNCHANGED <<pullListener, handlers>>
       ELSE /\ pullListener' = TRUE
            /\ handlers' = handlers + 1
            /\ resp' = ListenResp("start", 200, "Pull listener started")
  /\ UNCHANGED <<fetches, clockVars, pushVars, pullVars, subsVars, acked, pullH, runs,
                 lookup>>

\* index.js 206-257: 400 without a project id, 'already running' with a
\* listener; else the handler is registered, or the client throws and the
\* catch answers 500 with pullListener still null.
PullStart ==
  /\ IF ~projectId
       THEN /\ resp' = ListenResp("start", 400, "GCP_PROJECT_ID environment variable not set")
            /\ UNCHANGED <<pullListener, handlers, faults>>
       ELSE IF pullListener
         THEN /\ resp' = ListenResp("start", 200, "Pull listener already running")
              /\ UNCHANGED <<pullListener, handlers, faults>>
         ELSE \E ok \in CallOutcomes :
                /\ faults' = Fault(ok)
                /\ pullListener' = ok
                /\ handlers' = IF ok THEN handlers + 1 ELSE handlers
                /\ resp' = IF ok THEN ListenResp("start", 200, "Pull listener started")
                           ELSE ListenResp("start", 500, "Failed to start listener")
  /\ UNCHANGED <<fetches, projectId, now, pushVars, pullVars, subsVars, acked, pullH,
                 runs, lookup>>

\* index.js 260-268: removeAllListeners on the subscription pullListener holds.
PullStop ==
  /\ IF ~pullListener
       THEN /\ resp' = ListenResp("stop", 200, "No pull listener running")
            /\ UNCHANGED <<pullListener, handlers>>
       ELSE /\ pullListener' = FALSE
            /\ handlers' = handlers - 1
            /\ resp' = ListenResp("stop", 200, "Pull listener stopped")
  /\ UNCHANGED <<fetches, clockVars, pushVars, pullVars, subsVars, acked, pullH, runs,
                 lookup>>

\* The stream callback has no try/catch: a throw of saveData leaves it and
\* reaches the emitter that called it; no response is sent.
StreamThrown == [op |-> "stream", status |-> 0, escaped |-> TRUE]

\* A stream callback that acknowledges before it saves.
DeliverAckFirst(mid) ==
  /\ handlers > 0
  /\ mid \notin acked
  /\ Len(pullStore) < MaxPull
  /\ \E t \in ClockReads, ok \in SaveOutcomes :
       /\ now' = t
       /\ faults' = Fault(ok)
       /\ pullStore' = Append(pullStore, PullEntry(t, mid, "pull-stream"))
       /\ pullFile' \in Written(ok, pullStore', pullFile)
       /\ acked' = acked \cup {mid}
       /\ resp' = IF ok THEN resp ELSE StreamThrown
  /\ UNCHANGED <<fetches, projectId, pushVars, subsVars, listenVars, pullH, runs,
                 lookup>>

\* The stream callback (221-246) for message mid: the entry is pushed, the
\* store saved, and only then the message acknowledged; a throw of saveData
\* leaves the callback before message.ack().
Deliver(mid) ==
  /\ handlers > 0
  /\ mid \notin acked
  /\ Len(pullStore) < MaxPull
  /\ \E t \in ClockReads, ok \in SaveOutcomes :
       /\ now' = t
       /\ faults' = Fault(ok)
       /\ pullStore' = Append(pullStore, PullEntry(t, mid, "pull-stream"))
       /\ pullFile' \in Written(ok, pullStore', pullFile)
       /\ acked' = IF ok THEN acked \cup {mid} ELSE acked
       /\ resp' = IF ok THEN resp ELSE StreamThrown
  /\ UNCHANGED <<fetches, projectId, pushVars, subsVars, listenVars, pullH, runs,
                 lookup>>

\* ------------------------------------------- DELETE /pull/:id (283-289)
\* findIndex: the first position holding the id, 0 when there is none.
FindIndex(s, id) ==
  IF \E k \in 1..Len(s) : s[k].id = id
    THEN CHOOSE k \in 1..Len(s) : s[k].id = id /\ \A j \in 1..(k - 1) : s[j].id # id
    ELSE 0

\* A splice without its count: everything from the index on is removed.
SpliceRest(s, k) == SubSeq(s, 1, k - 1)

\* splice(index, 1)
Splice(s, k) == SubSeq(s, 1, k - 1) \o SubSeq(s, k + 1, Len(s))

\* 404 when no entry has the id; a throw of saveData is answered 500.
DeletePull(id) ==
  IF FindIndex(pullStore, id) = 0
    THEN /\ resp' = [op |-> "deletePull", status |-> 404, id |-> id, escaped |-> FALSE]
         /\ UNCHANGED <<fetches, clockVars, pushVars, pullVars, subsVars, acked,
                        listenVars, pullH, runs, lookup>>
    ELSE /\ \E ok \in SaveOutcomes :
              /\ faults' = Fault(ok)
              /\ pullStore' = Splice(pullStore, FindIndex(pullStore, id))
              /\ pullFile' \in Written(ok, pullStore', pullFile)
              /\ resp' = [op |-> "deletePull", status |-> IF ok THEN 204 ELSE 500,
                          id |-> id, escaped |-> ~ok]
         /\ UNCHANGED <<fetches, projectId, now, pushVars, subsVars, acked, listenVars,
                        pullH, runs, lookup>>

\* ------------------------------ POST /subscriptions/fetch (375-507)
\* A check that never finds the record.
HasRecordNever(subs, mid) == FALSE

\* subscriptionsStore.find(s => s.messageId === notification.messageId)
HasRecord(subs, mid) == \E k \in 1..Len(subs) : subs[k].messageId = mid

FindRecord(subs, mid) ==
  subs[CHOOSE k \in 1..Len(subs) :
         subs[k].messageId = mid /\ \A j \in 1..(k - 1) : subs[j].messageId # mid]

\* The synchronous part of the loop 'for (const notification of pullStore)'
\* from position i of the live array: notifications that do not qualify are
\* skipped, those with a record are reported already_processed, and the scan
\* stops at the first one that needs the upstream (stop = "call") or at the
\* end of the array (stop = "end").
RECURSIVE Scan(_, _, _)
Scan(i, results, subs) ==
  IF i > Len(pullStore)
    THEN [stop |-> "end", idx |-> i, cur |-> NoEntry, results |-> results]
    ELSE LET n == pullStore[i]
         IN IF ~Qualifies(n) THEN Scan(i + 1, results, subs)
            ELSE IF HasRecord(subs, n.messageId)
              THEN Scan(i + 1,
                        Append(results,
                               [rec |-> FindRecord(subs, n.messageId),
                                status |-> "already_processed",
                                calls |-> << >>]),
                        subs)
              ELSE [stop |-> "call", idx |-> i + 1, cur |-> n, results |-> results]

\* The response of a run (493-498, and 500 from the catch), with what the run
\* saw: whether it started right after a run over the same stores (second),
\* the enriched store at its start and its end, the pull store at its end.
FetchResp(r, results, subs, ok) ==
  [op |-> "fetch", status |-> IF ok THEN 200 ELSE 500, escaped |-> FALSE,
   total |-> Len(results), subscriptions |-> results,
   appended |-> r.appended, second |-> r.second,
   subsAtStart |-> r.subsAtStart, subsAtEnd |-> subs, pullAtEnd |-> pullStore]

\* Run i goes on from position from with run record r and store subs: either
\* it awaits the v2 lookup of the next new notification, or the loop is over
\* and it saves the store and answers (491-498; 500 from the catch when
\* saveData throws).
Continue(i, r, subs, from) ==
  LET s == Scan(from, r.results, subs)
  IN IF s.stop = "call"
       THEN /\ runs' = [runs EXCEPT ![i] =
                          [r EXCEPT !.pc = "v2", !.idx = s.idx, !.cur = s.cur,
                                    !.calls = << >>, !.results = s.results]]
            /\ subscriptionsStore' = subs
            /\ created' = created \cup {subs[k].messageId : k \in 1..Len(subs)}
            /\ UNCHANGED <<subsFile, faults, resp>>
       ELSE \E ok \in SaveOutcomes :
              /\ faults' = Fault(ok)
              /\ subscriptionsStore' = subs
              /\ created' = created \cup {subs[k].messageId : k \in 1..Len(subs)}
              /\ subsFile' \in Written(ok, subs, subsFile)
              /\ runs' = [runs EXCEPT ![i] = IdleRun]
              /\ resp' = FetchResp(r, s.results, subs, ok)

\* The last response is that of a run that ran to its end over the stores as
\* they are now.
RanOver ==
  /\ resp.op = "fetch"
  /\ resp.pullAtEnd = pullStore
  /\ resp.subsAtEnd = subscriptionsStore

\* The request arrives.
FetchStart(i) ==
  /\ runs[i].pc = "idle"
  /\ fetches < MaxFetch
  /\ fetches' = fetches + 1
  /\ Continue(i, [IdleRun EXCEPT !.second = Quiet /\ RanOver,
                                 !.subsAtStart = subscriptionsStore],
              subscriptionsStore, 1)
  /\ UNCHANGED <<projectId, now, pushVars, pullVars, acked, listenVars, pullH,
                 lookup>>

\* A step that writes the new record over the last one of the store.
AppendRecordOverwriting(i, apiVersion, d, calls) ==
  \E t \in ClockReads :
    LET r == runs[i]
        e == EnrichedEntry(r.cur, apiVersion, d, t)
    IN /\ now' = t
       /\ Continue(i,
                   [r EXCEPT !.results =
                               Append(r.results,
                                      [rec |-> e, status |-> "processed",
                                       calls |-> calls]),
                             !.appended = r.appended + 1],
                   IF subscriptionsStore = << >> THEN << e >>
                   ELSE [subscriptionsStore EXCEPT ![Len(subscriptionsStore)] = e],
                   r.idx)

\* Lines 445-488: the record of the current notification is pushed on the
\* store and reported processed, and the loop goes on.
AppendRecord(i, apiVersion, d, calls) ==
  \E t \in ClockReads :
    LET r == runs[i]
        e == EnrichedEntry(r.cur, apiVersion, d, t)
    IN /\ now' = t
       /\ Continue(i,
                   [r EXCEPT !.results =
                               Append(r.results,
                                      [rec |-> e, status |-> "processed",
                                       calls |-> calls]),
                             !.appended = r.appended + 1],
                   Append(subscriptionsStore, e), r.idx)

\* A v2 return that goes on to the v1 lookup whatever v2 returned.
FetchV2ReturnsThenV1(i) ==
  /\ runs[i].pc = "v2"
  /\ \E d \in V2Results :
       /\ runs' = [runs EXCEPT ![i].pc = "v1",
                               ![i].calls = Append(runs[i].calls,
                                                   [api |-> "v2", result |-> d])]
       /\ UNCHANGED <<now, faults, subsVars, resp>>
  /\ UNCHANGED <<fetches, projectId, pushVars, pullVars, acked, listenVars, pullH, lookup>>

\* getSubscriptionDetailsV2 returned d (null when the call failed): with a
\* result the record is built as v2, without one the v1 lookup is awaited.
FetchV2Returns(i) ==
  /\ runs[i].pc = "v2"
  /\ \E d \in V2Results :
       LET calls == Append(runs[i].calls, [api |-> "v2", result |-> d])
       IN IF d.present
            THEN AppendRecord(i, "v2", d, calls)
            ELSE /\ runs' = [runs EXCEPT ![i].pc = "v1", ![i].calls = calls]
                 /\ UNCHANGED <<now, faults, subsVars, resp>>
  /\ UNCHANGED <<fetches, projectId, pushVars, pullVars, acked, listenVars, pullH, lookup>>

\* A v1 return that gives the run up with a 500 when v1 has no result either.
FetchV1ReturnsAborting(i) ==
  /\ runs[i].pc = "v1"
  /\ \E d \in V1Results :
       LET calls == Append(runs[i].calls, [api |-> "v1", result |-> d])
       IN IF d.present
            THEN AppendRecord(i, "v1", d, calls)
            ELSE /\ runs' = [runs EXCEPT ![i] = IdleRun]
                 /\ resp' = FetchResp(runs[i], runs[i].results, subscriptionsStore, FALSE)
                 /\ UNCHANGED <<now, faults, subsVars>>
  /\ UNCHANGED <<fetches, projectId, pushVars, pullVars, acked, listenVars, pullH, lookup>>

\* getSubscriptionDetailsV1 returned d.
FetchV1Returns(i) ==
  /\ runs[i].pc = "v1"
  /\ \E d \in V1Results :
       AppendRecord(i, "v1", d, Append(runs[i].calls, [api |-> "v1", result |-> d]))
  /\ UNCHANGED <<fetches, projectId, pushVars, pullVars, acked, listenVars, pullH, lookup>>

\* ------------------------------------- DELETE /subscriptions (593-597)
DeleteSubscriptions ==
  /\ \E ok \in SaveOutcomes :
       /\ faults' = Fault(ok)
       /\ subscriptionsStore' = << >>
       /\ subsFile' \in Written(ok, << >>, subsFile)
       /\ UNCHANGED created
       /\ resp' = [op |-> "deleteSubscriptions", status |-> IF ok THEN 204 ELSE 500,
                   escaped |-> ~ok]
  /\ UNCHANGED <<fetches, projectId, now, pushVars, pullVars, acked, listenVars, pullH,
                 runs, lookup>>

\* ----------------------------- POST /subscriptions/lookup (517-590)
LookupBodies ==
  [packageName : {"com.x", UNDEF}, purchaseToken : {"tok1", UNDEF},
   subscriptionId : {"sub1", UNDEF}]

LookupResp(l, status, apiVersion, d, fields, calls) ==
  [op |-> "lookup", status |-> status, escaped |-> FALSE,
   packageName |-> l.packageName,
   purchaseToken |-> l.purchaseToken, subscriptionId |-> l.subscriptionId,
   apiVersion |-> apiVersion, apiResponse |-> d, fields |-> fields,
   calls |-> calls]

\* The request arrives: 400 when a required field is missing, else the v2
\* lookup is awaited.
LookupRequest ==
  /\ lookup.pc = "idle"
  /\ \E b \in LookupBodies :
       LET l == [IdleLookup EXCEPT !.packageName = b.packageName,
                                   !.purchaseToken = b.purchaseToken,
                                   !.subscriptionId = b.subscriptionId]
       IN IF ~Truthy(b.packageName) \/ ~Truthy(b.purchaseToken)
            THEN /\ resp' = LookupResp(l, 400, NULL, NoDetails, NoFields, << >>)
                 /\ UNCHANGED lookup
            ELSE /\ lookup' = [l EXCEPT !.pc = "v2"]
                 /\ UNCHANGED resp
  /\ UNCHANGED <<fetches, clockVars, pushVars, pullVars, subsVars, acked, listenVars,
                 pullH, runs>>

\* Lines 540-562: the lookup keeps undefined fields as they are (no '|| null').
LookupFields(apiVersion, d) ==
  IF apiVersion = "v2"
    THEN [obfuscatedAccountId |-> IF d.hasExternalIds THEN d.extAccountId ELSE UNDEF,
          obfuscatedProfileId |-> IF d.hasExternalIds THEN d.extProfileId ELSE UNDEF,
          state |-> d.subscriptionState,
          startTime |-> d.startTime,
          startTimeIST |-> toIST(d.startTime),
          expiryTime |-> IF Len(d.lineItems) > 0 THEN d.lineItems[1] ELSE NULL,
          expiryTimeIST |->
            toIST(IF Len(d.lineItems) > 0 THEN d.lineItems[1] ELSE NULL)]
    ELSE [obfuscatedAccountId |-> d.obfuscatedExternalAccountId,
          obfuscatedProfileId |-> d.obfuscatedExternalProfileId,
          state |-> NULL,
          startTime |-> d.startTimeMillis,
          startTimeIST |-> millisToIST(d.startTimeMillis),
          expiryTime |-> d.expiryTimeMillis,
          expiryTimeIST |-> millisToIST(d.expiryTimeMillis)]

\* Lines 536-581: 404 without details, else the 200 response.
LookupAnswer(l, apiVersion, d, calls) ==
  IF ~d.present
    THEN LookupResp(l, 404, NULL, NoDetails, NoFields, calls)
    ELSE LookupResp(l, 200, apiVersion, d, LookupFields(apiVersion, d), calls)

\* A v2 return that falls back to v1 whether or not a subscriptionId was given.
LookupV2ReturnsUnguarded ==
  /\ lookup.pc = "v2"
  /\ \E d \in V2Results :
       LET calls == Append(lookup.calls, [api |-> "v2", result |-> d])
       IN IF ~d.present
            THEN /\ lookup' = [lookup EXCEPT !.pc = "v1", !.calls = calls]
                 /\ UNCHANGED resp
            ELSE /\ lookup' = IdleLookup
                 /\ resp' = LookupAnswer(lookup, "v2", d, calls)
  /\ UNCHANGED <<fetches, clockVars, pushVars, pullVars, subsVars, acked, listenVars,
                 pullH, runs>>

\* getSubscriptionDetailsV2 returned d: the v1 lookup is awaited only when
\* there is no result and the caller gave a subscriptionId (531).
LookupV2Returns ==
  /\ lookup.pc = "v2"
  /\ \E d \in V2Results :
       LET calls == Append(lookup.calls, [api |-> "v2", result |-> d])
       IN IF ~d.present /\ Truthy(lookup.subscriptionId)
            THEN /\ lookup' = [lookup EXCEPT !.pc = "v1", !.calls = calls]
                 /\ UNCHANGED resp
            ELSE /\ lookup' = IdleLookup
                 /\ resp' = LookupAnswer(lookup, "v2", d, calls)
  /\ UNCHANGED <<fetches, clockVars, pushVars, pullVars, subsVars, acked, listenVars,
                 pullH, runs>>

\* A v1 return that stores a record with nulls, as the batch run does.
LookupV1ReturnsRecording ==
  /\ lookup.pc = "v1"
  /\ \E d \in V1Results :
       /\ lookup' = IdleLookup
       /\ resp' = LookupAnswer(lookup, "v1", d,
                               Append(lookup.calls, [api |-> "v1", result |-> d]))
       /\ subscriptionsStore' =
            Append(subscriptionsStore, EnrichedEntry(NoEntry, "v1", d, now))
       /\ subsFile' = subscriptionsStore'
       /\ UNCHANGED created
  /\ UNCHANGED <<fetches, clockVars, pushVars, pullVars, acked, listenVars,
                 pullH, runs>>

LookupV1Returns ==
  /\ lookup.pc = "v1"
  /\ \E d \in V1Results :
       /\ lookup' = IdleLookup
       /\ resp' = LookupAnswer(lookup, "v1", d,
                               Append(lookup.calls, [api |-> "v1", result |-> d]))
  /\ UNCHANGED <<fetches, clockVars, pushVars, pullVars, subsVars, acked, listenVars,
                 pullH, runs>>

\* ------------------------------------------------ POST /push (70-97)
\* The request bodies of the model: an envelope whose message.data is the
\* base64 of DataPurchased, one whose message.data is the base64 of DataText,
\* one whose message.data has no base64 character, and one without a message.
Base64Purchased ==
  "eyJwYWNrYWdlTmFtZSI6ImNvbS54IiwiZXZlbnRUaW1lTWlsbGlzIjoiMTcwMDAwMDAwMDAwMCIsInN1YnNjcmlwdGlvbk5vdGlmaWNhdGlvbiI6eyJub3RpZmljYXRpb25UeXBlIjo0LCJwdXJjaGFzZVRva2VuIjoidG9rMSIsInN1YnNjcmlwdGlvbklkIjoic3ViMSJ9fQ=="
Base64Text == "bm90IGpzb24="
NotBase64 == "%%%"

PushBodies ==
  {[hasMessage |-> TRUE, data |-> Base64Purchased],
   [hasMessage |-> TRUE, data |-> Base64Text],
   [hasMessage |-> TRUE, data |-> NotBase64],
   [hasMessage |-> FALSE, data |-> UNDEF]}

NoBody == [hasMessage |-> FALSE, data |-> ""]

\* Buffer.from(data, 'base64').toString('utf8'): characters outside the
\* base64 alphabet are skipped, so NotBase64 decodes to the empty string.
Base64Decode(b) ==
  CASE b = Base64Purchased -> DataPurchased
    [] b = Base64Text -> DataText
    [] OTHER -> ""

\* A push decode that keeps the decoded string when it does not parse, as the
\* pull decode does.
DecodePushAsPull(body) ==
  IF body.hasMessage /\ Truthy(body.data)
    THEN [envelope |-> FALSE, parsed |-> DecodePull(Base64Decode(body.data)),
          body |-> NoBody]
    ELSE [envelope |-> TRUE, parsed |-> StringData(""), body |-> body]

\* Lines 74-82: the parsed inner payload, or the envelope itself when there is
\* no message.data or it does not parse.
DecodePush(body) ==
  IF body.hasMessage /\ Truthy(body.data) /\ IsJSON(Base64Decode(body.data))
    THEN [envelope |-> FALSE, parsed |-> JSONParse(Base64Decode(body.data)),
          body |-> NoBody]
    ELSE [envelope |-> TRUE, parsed |-> StringData(""), body |-> body]

PushEntry(t, body) ==
  [id |-> ToString(t), type |-> "push", data |-> DecodePush(body),
   rawPayload |-> body]

PostPush ==
  /\ Len(pushStore) < MaxPush
  /\ \E body \in PushBodies, t \in ClockReads, ok \in SaveOutcomes :
       /\ now' = t
       /\ faults' = Fault(ok)
       /\ pushStore' = Append(pushStore, PushEntry(t, body))
       /\ pushFile' \in Written(ok, pushStore', pushFile)
       /\ resp' = [op |-> "push", status |-> IF ok THEN 200 ELSE 500,
                   id |-> IF ok THEN ToString(t) ELSE "", escaped |-> ~ok]
  /\ UNCHANGED <<fetches, projectId, store, dataFile, pullVars, subsVars, acked,
                 listenVars, pullH, runs, lookup>>

\* DELETE /push/:id (112-118)
DeletePush(id) ==
  IF FindIndex(pushStore, id) = 0
    THEN /\ resp' = [op |-> "deletePush", status |-> 404, id |-> id, escaped |-> FALSE]
         /\ UNCHANGED <<fetches, clockVars, pushVars, pullVars, subsVars, acked,
                        listenVars, pullH, runs, lookup>>
    ELSE /\ \E ok \in SaveOutcomes :
              /\ faults' = Fault(ok)
              /\ pushStore' = Splice(pushStore, FindIndex(pushStore, id))
              /\ pushFile' \in Written(ok, pushStore', pushFile)
              /\ resp' = [op |-> "deletePush", status |-> IF ok THEN 204 ELSE 500,
                          id |-> id, escaped |-> ~ok]
         /\ UNCHANGED <<fetches, projectId, now, store, dataFile, pullVars, subsVars,
                        acked, listenVars, pullH, runs, lookup>>

\* The response of GET /<collection>/:id on store s (find, 404 when there is
\* no entry of the id), with whether the request follows a successful DELETE
\* of the same id on the same collection.
GetResp(op, deleteOp, s, id) ==
  [op |-> op, status |-> IF FindIndex(s, id) = 0 THEN 404 ELSE 200, id |-> id,
   afterDelete |-> (resp.op = deleteOp /\ resp.status = 204 /\ resp.id = id),
   escaped |-> FALSE]

\* GET /push/:id (105-109)
GetPush(id) ==
  /\ resp' = GetResp("getPush", "deletePush", pushStore, id)
  /\ UNCHANGED <<fetches, clockVars, pushVars, pullVars, subsVars, acked, listenVars,
                 pullH, runs, lookup>>

\* GET /pull/:id (276-280)
GetPull(id) ==
  /\ resp' = GetResp("getPull", "deletePull", pullStore, id)
  /\ UNCHANGED <<fetches, clockVars, pushVars, pullVars, subsVars, acked, listenVars,
                 pullH, runs, lookup>>

\* --------------------------------------- legacy /data (296-320)
DataBodies == {"a", "b"}

DataEntry(t, body) == [id |-> ToString(t), data |-> body]

PostData ==
  /\ Len(store) < MaxData
  /\ \E body \in DataBodies, t \in ClockReads, ok \in SaveOutcomes :
       /\ now' = t
       /\ faults' = Fault(ok)
       /\ store' = Append(store, DataEntry(t, body))
       /\ dataFile' \in Written(ok, store', dataFile)
       /\ resp' = [op |-> "data", status |-> IF ok THEN 201 ELSE 500,
                   id |-> IF ok THEN ToString(t) ELSE "", escaped |-> ~ok]
  /\ UNCHANGED <<fetches, projectId, pushStore, pushFile, pullVars, subsVars, acked,
                 listenVars, pullH, runs, lookup>>

DeleteData(id) ==
  IF FindIndex(store, id) = 0
    THEN /\ resp' = [op |-> "deleteData", status |-> 404, id |-> id, escaped |-> FALSE]
         /\ UNCHANGED <<fetches, clockVars, pushVars, pullVars, subsVars, acked,
                        listenVars, pullH, runs, lookup>>
    ELSE /\ \E ok \in SaveOutcomes :
              /\ faults' = Fault(ok)
              /\ store' = Splice(store, FindIndex(store, id))
              /\ dataFile' \in Written(ok, store', dataFile)
              /\ resp' = [op |-> "deleteData", status |-> IF ok THEN 204 ELSE 500,
                          id |-> id, escaped |-> ~ok]
         /\ UNCHANGED <<fetches, projectId, now, pushStore, pushFile, pullVars, subsVars,
                        acked, listenVars, pullH, runs, lookup>>

\* GET /data/:id (308-312)
GetData(id) ==
  /\ resp' = GetResp("getData", "deleteData", store, id)
  /\ UNCHANGED <<fetches, clockVars, pushVars, pullVars, subsVars, acked, listenVars,
                 pullH, runs, lookup>>

\* ------------------------------------------------------ specifications
\* The service started on files an earlier life of the process wrote
\* (loadData, 52-57 and 64-65): a pull store of entries pulled at clock 0,
\* whose messages were acknowledged.
LoadedPulls ==
  UNION {[1..k -> {PullEntry(0, mid, "pull") : mid \in MsgIds}] : k \in 0..MaxPull}

InitLoaded ==
  /\ projectId = TRUE
  /\ now = 0
  /\ faults = 0
  /\ fetches = 0
  /\ pushStore = << >> /\ pushFile = << >>
  /\ store = << >> /\ dataFile = << >>
  /\ pullStore \in LoadedPulls /\ pullFile = pullStore
  /\ subscriptionsStore = << >> /\ subsFile = << >>
  /\ created = {}
  /\ acked = MsgIds
  /\ pullListener = FALSE
  /\ handlers = 0
  /\ pullH = IdlePull
  /\ runs = [i \in RunIds |-> IdleRun]
  /\ lookup = IdleLookup
  /\ resp = NoResp

\* The service: every handler, interleaved at the await points.
Next ==
  \/ PostPush
  \/ \E k \in 1..Len(pushStore) : DeletePush(pushStore[k].id)
  \/ DeletePush("none")
  \/ \E k \in 1..Len(pushStore) : GetPush(pushStore[k].id)
  \/ \E k \in 1..Len(store) : GetData(store[k].id)
  \/ \E k \in 1..Len(pullStore) : GetPull(pullStore[k].id)
  \/ PostData
  \/ \E k \in 1..Len(store) : DeleteData(store[k].id)
  \/ DeleteData("none")
  \/ PullRequest
  \/ PullFails
  \/ PullReturnsNone
  \/ PullReturns
  \/ AckReturns
  \/ CloseReturns
  \/ CloseEmptyReturns
  \/ PullStart
  \/ PullStop
  \/ \E mid \in MsgIds : Deliver(mid)
  \/ \E k \in 1..Len(pullStore) : DeletePull(pullStore[k].id)
  \/ DeletePull("none")
  \/ \E i \in RunIds : FetchStart(i)
  \/ \E i \in RunIds : FetchV2Returns(i)
  \/ \E i \in RunIds : FetchV1Returns(i)
  \/ DeleteSubscriptions
  \/ LookupRequest
  \/ LookupV2Returns
  \/ LookupV1Returns

Spec == Init /\ [][Next]_vars

\* Ingestion: the pull, streaming and delete handlers of the pull store,
\* interleaved at the await points of POST /pull.
NextIngest ==
  \/ PullRequest
  \/ PullFails
  \/ PullReturnsNone
  \/ PullReturns
  \/ AckReturns
  \/ CloseReturns
  \/ CloseEmptyReturns
  \/ PullStart
  \/ PullStop
  \/ \E mid \in MsgIds : Deliver(mid)
  \/ \E k \in 1..Len(pullStore) : DeletePull(pullStore[k].id)
  \/ DeletePull("none")

SpecIngest == Init /\ [][NextIngest]_vars

\* Enrichment, one request at a time: a request is taken up only when no
\* handler is waiting at an await.
NextEnrich ==
  \/ Quiet /\ FetchStart(1)
  \/ FetchV2Returns(1)
  \/ FetchV1Returns(1)
  \/ Quiet /\ DeleteSubscriptions

SpecEnrich == InitLoaded /\ [][NextEnrich]_vars

\* Enrichment with requests overlapping at the await points.
NextOverlap ==
  \/ \E i \in RunIds : FetchStart(i)
  \/ \E i \in RunIds : FetchV2Returns(i)
  \/ \E i \in RunIds : FetchV1Returns(i)
  \/ \E k \in 1..Len(pullStore) : DeletePull(pullStore[k].id)

SpecOverlap == InitLoaded /\ [][NextOverlap]_vars

\* Streaming: the listener handlers, the stream callback and the delete
\* handler of the pull store.
NextStream ==
  \/ PullStart
  \/ PullStop
  \/ \E mid \in MsgIds : Deliver(mid)
  \/ \E k \in 1..Len(pullStore) : DeletePull(pullStore[k].id)

SpecStream == Init /\ [][NextStream]_vars

\* The single lookup, on stores loaded from files an earlier life of the
\* process wrote.
LoadedPushes ==
  UNION {[1..k -> {PushEntry(0, b) : b \in PushBodies}] : k \in 0..MaxLoaded}

LoadedData ==
  UNION {[1..k -> {DataEntry(0, b) : b \in DataBodies}] : k \in 0..MaxLoaded}

LoadedSubscriptions ==
  {<< >>, << EnrichedEntry(PullEntry(0, "m1", "pull"), "v2", V2Full, 0) >>}

InitLookup ==
  /\ projectId = TRUE
  /\ now = 0
  /\ faults = 0
  /\ fetches = 0
  /\ pushStore \in LoadedPushes /\ pushFile = pushStore
  /\ store \in LoadedData /\ dataFile = store
  /\ pullStore \in LoadedPulls /\ pullFile = pullStore
  /\ subscriptionsStore \in LoadedSubscriptions /\ subsFile = subscriptionsStore
  /\ created = {subscriptionsStore[k].messageId : k \in 1..Len(subscriptionsStore)}
  /\ acked = MsgIds
  /\ pullListener = FALSE
  /\ handlers = 0
  /\ pullH = IdlePull
  /\ runs = [i \in RunIds |-> IdleRun]
  /\ lookup = IdleLookup
  /\ resp = NoResp

NextLookup ==
  \/ LookupRequest
  \/ LookupV2Returns
  \/ LookupV1Returns

SpecLookup == InitLookup /\ [][NextLookup]_vars

\* Enrichment of one stored notification whose notificationType is any of
\* the codes below: the 14 mapped ones, integers around them, 999, and a
\* payload without the field.
Codes ==
  {"1", "2", "3", "4", "5", "6", "7", "8", "9", "10", "11", "12", "13", "20"}
    \cup {"-1", "0", "14", "19", "21", "999", UNDEF}

TypedEntry(c) ==
  [PullEntry(0, "m1", "pull") EXCEPT !.data.notificationType = c]

InitTyped ==
  /\ projectId = TRUE
  /\ now = 0
  /\ faults = 0
  /\ fetches = 0
  /\ pushStore = << >> /\ pushFile = << >>
  /\ store = << >> /\ dataFile = << >>
  /\ pullStore \in {<< TypedEntry(c) >> : c \in Codes} /\ pullFile = pullStore
  /\ subscriptionsStore = << >> /\ subsFile = << >>
  /\ created = {}
  /\ acked = MsgIds
  /\ pullListener = FALSE
  /\ handlers = 0
  /\ pullH = IdlePull
  /\ runs = [i \in RunIds |-> IdleRun]
  /\ lookup = IdleLookup
  /\ resp = NoResp

SpecTypes == InitTyped /\ [][NextEnrich]_vars

\* The first request after a start on files an earlier life of the process
\* wrote: the messages of the loaded pull entries were acknowledged, the
\* others are still with the transport.
InitServe ==
  /\ projectId = TRUE
  /\ now = 0
  /\ faults = 0
  /\ fetches = 0
  /\ pushStore \in LoadedPushes /\ pushFile = pushStore
  /\ store = << >> /\ dataFile = << >>
  /\ pullStore \in LoadedPulls /\ pullFile = pullStore
  /\ subscriptionsStore \in LoadedSubscriptions /\ subsFile = subscriptionsStore
  /\ created = {subscriptionsStore[k].messageId : k \in 1..Len(subscriptionsStore)}
  /\ acked = {pullStore[k].messageId : k \in 1..Len(pullStore)}
  /\ pullListener = FALSE
  /\ handlers = 0
  /\ pullH = IdlePull
  /\ runs = [i \in RunIds |-> IdleRun]
  /\ lookup = IdleLookup
  /\ resp = NoResp

\* No request has been taken up yet.
NoRequestYet == Quiet /\ resp.op = "none"

\* Every handler of the notification and enrichment stores as the first
\* request, and the stream deliveries that follow a POST /pull/start.
NextOnce ==
  \/ NoRequestYet /\ PostPush
  \/ NoRequestYet /\ \E k \in 1..Len(pushStore) : DeletePush(pushStore[k].id)
  \/ NoRequestYet /\ PullRequest
  \/ PullFails
  \/ PullReturnsNone
  \/ PullReturns
  \/ AckReturns
  \/ CloseReturns
  \/ CloseEmptyReturns
  \/ NoRequestYet /\ PullStart
  \/ NoRequestYet /\ PullStop
  \/ \E mid \in MsgIds : Deliver(mid)
  \/ NoRequestYet /\ \E k \in 1..Len(pullStore) : DeletePull(pullStore[k].id)
  \/ NoRequestYet /\ FetchStart(1)
  \/ FetchV2Returns(1)
  \/ FetchV1Returns(1)
  \/ NoRequestYet /\ DeleteSubscriptions
  \/ NoRequestYet /\ LookupRequest
  \/ LookupV2Returns
  \/ LookupV1Returns

SpecOnce == InitServe /\ [][NextOnce]_vars

\* The ids Date.now().toString() can give in the model.
ClockIds == {ToString(t) : t \in 0..MaxClock}

\* The two collections whose ids are the clock value alone: POST, GET and
\* DELETE of the push store and of the legacy store.
NextIds ==
  \/ PostPush
  \/ \E id \in ClockIds : DeletePush(id)
  \/ \E id \in ClockIds : GetPush(id)
  \/ PostData
  \/ \E id \in ClockIds : DeleteData(id)
  \/ \E id \in ClockIds : GetData(id)

SpecIds == Init /\ [][NextIds]_vars

\* The synchronous pull alone.
NextPull ==
  \/ PullRequest
  \/ PullFails
  \/ PullReturnsNone
  \/ PullReturns
  \/ AckReturns
  \/ CloseReturns
  \/ CloseEmptyReturns

SpecPull == Init /\ [][NextPull]_vars

\* Receipt: the synchronous pull and the streaming listener, with no
\* deletion.
NextReceive ==
  \/ PullRequest
  \/ PullFails
  \/ PullReturnsNone
  \/ PullReturns
  \/ AckReturns
  \/ CloseReturns
  \/ CloseEmptyReturns
  \/ PullStart
  \/ \E mid \in MsgIds : Deliver(mid)

SpecReceive == Init /\ [][NextReceive]_vars

\* The push webhook and the delete handler of the push store.
NextPush ==
  \/ PostPush
  \/ \E k \in 1..Len(pushStore) : DeletePush(pushStore[k].id)
  \/ DeletePush("none")

SpecPush == Init /\ [][NextPush]_vars

\* ---------------------------------------------------------------- claims
InSeq(s, e) == \E k \in 1..Len(s) : s[k] = e

\* C3: in POST /pull the acknowledge call for a batch never happens before the
\* pull collection holding the batch's entries has been persisted: once the
\* batch is acknowledged, every entry of it is in pull-data.json.
PullAckAfterPersist ==
  pullH.pc = "closing" => \A k \in 1..Len(pullH.entries) : InSeq(pullFile, pullH.entries[k])

\* C4: a step of the stream callback that acknowledges message m has stored
\* m's entry and persisted the store; when the save fails (the file is not the
\* store) the message is not acknowledged.
StreamAckAfterPersist ==
  [][\A m \in MsgIds :
       (m \in acked' /\ m \notin acked /\ pullH' = pullH)
         => /\ pullFile' = pullStore'
            /\ Len(pullFile') = Len(pullStore) + 1
            /\ pullFile'[Len(pullFile')].messageId = m
            /\ pullFile'[Len(pullFile')].type = "pull-stream"]_vars

\* C4 witness: one streamed message was saved and acknowledged, the save of
\* another failed and it is still unacknowledged.
StreamAckWitness ==
  /\ Len(pullStore) = 2
  /\ pullStore[1].type = "pull-stream" /\ pullStore[1].messageId \in acked
  /\ pullStore[2].type = "pull-stream" /\ pullStore[2].messageId \notin acked
  /\ pullFile = << pullStore[1] >>

\* C5: at most one message handler is registered, and exactly when
\* pullListener is set; a start while a listener is active and a stop while
\* none is change nothing but the response; a start with no listener adds one
\* handler, a stop with a listener removes one.
SingleListener ==
  /\ [](handlers <= 1 /\ (pullListener <=> handlers = 1))
  /\ [][/\ (pullListener <=> pullListener') => handlers' = handlers
        /\ (~pullListener /\ pullListener')
             => handlers' = handlers + 1 /\ resp'.message = "Pull listener started"
        /\ (pullListener /\ ~pullListener')
             => handlers' = handlers - 1 /\ resp'.message = "Pull listener stopped"
        /\ (resp' # resp /\ resp'.op \in {"start", "stop"}
              /\ resp'.message \in {"Pull listener already running",
                                    "No pull listener running"})
             => UNCHANGED <<clockVars, fetches, pushVars, pullVars, subsVars,
                            acked, listenVars, pullH, runs, lookup>>]_vars

\* C5 witness: a start answered 'already running' while the one handler stays.
SingleListenerWitness ==
  /\ resp.op = "start"
  /\ resp.message = "Pull listener already running"
  /\ pullListener /\ handlers = 1
\* C1: the enriched store holds at most one record per messageId.
AtMostOnePerMessageId ==
  \A j, k \in 1..Len(subscriptionsStore) :
    j # k => subscriptionsStore[j].messageId # subscriptionsStore[k].messageId

\* The result entries of a run: those of the runs in progress and those of the
\* last response when it is a run's.
RunResults ==
  {runs[i].results : i \in RunIds} \cup
    (IF resp.op = "fetch" THEN {resp.subscriptions} ELSE {})

Processed(rs) == {k \in 1..Len(rs) : rs[k].status = "processed"}

\* The notifications whose data has a subscriptionNotification object.
WithSubscriptionNotification(pulls) == SelectSeq(pulls, LAMBDA n : n.data.sn)

\* C2: a run started right after a run over the same stores reaches no upstream
\* call, leaves the enriched store as it found it, and reports every
\* qualifying notification already_processed.
SecondRunIdempotent ==
  /\ \A i \in RunIds : runs[i].second => runs[i].pc = "idle"
  /\ (resp.op = "fetch" /\ resp.second) =>
       /\ resp.subsAtEnd = resp.subsAtStart
       /\ resp.appended = 0
       /\ Len(resp.subscriptions) = Len(WithSubscriptionNotification(resp.pullAtEnd))
       /\ \A k \in 1..Len(resp.subscriptions) :
            /\ resp.subscriptions[k].status = "already_processed"
            /\ resp.subscriptions[k].calls = << >>

\* C2 witness: a second run that reported two notifications.
SecondRunWitness ==
  /\ resp.op = "fetch" /\ resp.second
  /\ resp.total = 2
  /\ resp.subscriptions[1].rec.messageId # resp.subscriptions[2].rec.messageId

\* C6: a new notification's calls are v2 alone when v2 returned a result, and
\* v2 then v1 when it did not; while v1 is awaited, v2 has returned nothing.
FallbackOrder ==
  /\ \A i \in RunIds :
       /\ runs[i].pc = "v2" => runs[i].calls = << >>
       /\ runs[i].pc = "v1" =>
            /\ Len(runs[i].calls) = 1
            /\ runs[i].calls[1].api = "v2" /\ ~runs[i].calls[1].result.present
  /\ \A rs \in RunResults : \A k \in Processed(rs) :
       LET c == rs[k].calls
       IN /\ Len(c) \in {1, 2}
          /\ c[1].api = "v2"
          /\ Len(c) = 1 <=> c[1].result.present
          /\ Len(c) = 2 => c[2].api = "v1"

\* C6 witness: a run answered with one record from v2 alone and one after the
\* fallback.
FallbackOrderWitness ==
  /\ resp.op = "fetch" /\ resp.total = 2
  /\ resp.subscriptions[1].status = "processed" /\ Len(resp.subscriptions[1].calls) = 1
  /\ resp.subscriptions[2].status = "processed" /\ Len(resp.subscriptions[2].calls) = 2

\* C7: when a version returned a result, apiVersion names the version whose
\* response is in apiResponse, and the fields come from that version's places.
ApiVersionNamesSource ==
  \A rs \in RunResults : \A k \in Processed(rs) :
    LET e == rs[k].rec
        v2 == rs[k].calls[1].result
        v1 == IF Len(rs[k].calls) = 2 THEN rs[k].calls[2].result ELSE NoDetails
        d == e.apiResponse
    IN (v2.present \/ v1.present) =>
         /\ e.apiVersion = "v2" <=> v2.present
         /\ e.apiVersion = "v1" <=> (~v2.present /\ v1.present)
         /\ d = IF v2.present THEN v2 ELSE v1
         /\ e.apiVersion = "v1" =>
              /\ e.user.obfuscatedAccountId = OrNull(d.obfuscatedExternalAccountId)
              /\ e.user.obfuscatedProfileId = OrNull(d.obfuscatedExternalProfileId)
              /\ e.subscription.state = NULL
              /\ e.subscription.startTime = OrNull(d.startTimeMillis)
              /\ e.subscription.expiryTime = OrNull(d.expiryTimeMillis)
         /\ e.apiVersion = "v2" =>
              /\ e.user.obfuscatedAccountId =
                   (IF d.hasExternalIds THEN OrNull(d.extAccountId) ELSE NULL)
              /\ e.user.obfuscatedProfileId =
                   (IF d.hasExternalIds THEN OrNull(d.extProfileId) ELSE NULL)
              /\ e.subscription.state = OrNull(d.subscriptionState)
              /\ e.subscription.startTime = OrNull(d.startTime)
              /\ e.subscription.expiryTime =
                   (IF d.lineItems # << >> THEN OrNull(d.lineItems[1]) ELSE NULL)

\* C7 witness: one record served by v1 after v2 failed, one served by v2.
ApiVersionWitness ==
  /\ resp.op = "fetch" /\ resp.total = 2
  /\ resp.subscriptions[1].status = "processed"
  /\ resp.subscriptions[1].rec.apiVersion = "v1"
  /\ resp.subscriptions[1].rec.apiResponse = V1Full
  /\ resp.subscriptions[1].rec.user.obfuscatedAccountId = "acc-v1"
  /\ resp.subscriptions[2].status = "processed"
  /\ resp.subscriptions[2].rec.apiVersion = "v2"
  /\ resp.subscriptions[2].rec.apiResponse = V2Full
  /\ resp.subscriptions[2].rec.subscription.expiryTime = "2024-02-01T00:00:00Z"

BothNull(calls) ==
  Len(calls) = 2 /\ ~calls[1].result.present /\ ~calls[2].result.present

\* C8: a notification for which both lookups returned nothing gets a record
\* with null fields, and the run goes on: its results cover every qualifying
\* notification, and it answers 500 only when saving the store failed.
BothNullRecorded ==
  /\ \A rs \in RunResults : \A k \in Processed(rs) :
       BothNull(rs[k].calls) =>
         /\ rs[k].rec.user = [obfuscatedAccountId |-> NULL, obfuscatedProfileId |-> NULL]
         /\ rs[k].rec.subscription =
              [state |-> NULL, startTime |-> NULL, startTimeIST |-> NULL,
               expiryTime |-> NULL, expiryTimeIST |-> NULL]
         /\ rs[k].rec.apiResponse = NoDetails
  /\ resp.op = "fetch" =>
       /\ Len(resp.subscriptions) = Len(WithSubscriptionNotification(resp.pullAtEnd))
       /\ resp.status = 500 => faults > 0
       /\ resp.status \in {200, 500}
       /\ \A k \in 1..Len(resp.subscriptions) :
            InSeq(resp.subsAtEnd, resp.subscriptions[k].rec)

\* C8 witness: a run answered 200 whose first record has nulls and whose
\* second notification was processed after it.
BothNullWitness ==
  /\ resp.op = "fetch" /\ resp.status = 200 /\ resp.total = 2
  /\ resp.subscriptions[1].status = "processed"
  /\ BothNull(resp.subscriptions[1].calls)
  /\ resp.subscriptions[2].status = "processed"
  /\ resp.subscriptions[2].rec.apiResponse.present

\* C9: the results of an answered run are, in order, the notifications with a
\* subscriptionNotification, one entry each, processed or already_processed;
\* total counts them, the processed ones are the records the run appended, and
\* an entry is already_processed exactly when a record of its messageId was
\* there before it.
FetchResultExact ==
  (resp.op = "fetch" /\ resp.status = 200) =>
    LET rs == resp.subscriptions
        qs == WithSubscriptionNotification(resp.pullAtEnd)
    IN /\ Len(rs) = Len(qs)
       /\ resp.total = Len(rs)
       /\ \A k \in 1..Len(rs) :
            /\ rs[k].rec.messageId = qs[k].messageId
            /\ rs[k].status \in {"processed", "already_processed"}
            /\ rs[k].status = "already_processed" <=>
                 \/ \E j \in 1..Len(resp.subsAtStart) :
                      resp.subsAtStart[j].messageId = qs[k].messageId
                 \/ \E j \in 1..(k - 1) : qs[j].messageId = qs[k].messageId
       /\ Cardinality(Processed(rs)) = Len(resp.subsAtEnd) - Len(resp.subsAtStart)
       /\ Cardinality(Processed(rs)) = resp.appended

\* C9 witness: a pull store of one qualifying and one other notification,
\* answered with exactly one entry.
FetchResultWitness ==
  /\ resp.op = "fetch" /\ resp.status = 200
  /\ Len(resp.pullAtEnd) = 2
  /\ ~resp.pullAtEnd[1].data.sn /\ resp.pullAtEnd[2].data.sn
  /\ resp.total = 1 /\ resp.subscriptions[1].status = "processed"

\* C10: no step of the lookup changes a store or a file, and a lookup whose
\* calls all returned nothing answers 404.
LookupChangesNothing ==
  /\ [][(lookup' # lookup \/ (resp' # resp /\ resp'.op = "lookup"))
          => UNCHANGED <<pushVars, pullVars, subsVars>>]_vars
  /\ []((resp.op = "lookup" /\ resp.status # 400
           /\ \A k \in 1..Len(resp.calls) : ~resp.calls[k].result.present)
          => resp.status = 404 /\ ~resp.apiResponse.present)

\* C10 witness: a lookup answered 404 after both versions returned nothing,
\* with entries in the push store and the legacy store.
LookupWitness ==
  /\ resp.op = "lookup" /\ resp.status = 404 /\ Len(resp.calls) = 2
  /\ pushStore # << >> /\ store # << >> /\ pullStore # << >>
  /\ Len(subscriptionsStore) = 1 /\ subsFile = subscriptionsStore

\* C11: every entry of the push store has type push and its rawPayload is the
\* request body; its data is the parsed inner JSON when message.data is the
\* base64 of JSON, and the request body itself otherwise; a POST /push appends
\* exactly one entry and answers 500 only when the file write threw.
PushDecodeTotal ==
  /\ [](\A k \in 1..Len(pushStore) :
          LET e == pushStore[k]
              p == e.rawPayload
          IN /\ e.type = "push"
             /\ p \in PushBodies
             /\ IF p.hasMessage /\ p.data = Base64Purchased
                  THEN /\ ~e.data.envelope
                       /\ e.data.parsed.json
                       /\ e.data.parsed.packageName = "com.x"
                       /\ e.data.parsed.notificationType = "4"
                       /\ e.data.parsed.purchaseToken = "tok1"
                       /\ e.data.parsed.subscriptionId = "sub1"
                  ELSE e.data.envelope /\ e.data.body = p)
  /\ [][(resp'.op = "push" /\ pushStore' # pushStore)
          => /\ Len(pushStore') = Len(pushStore) + 1
             /\ SubSeq(pushStore', 1, Len(pushStore)) = pushStore
             /\ resp'.status \in {200, 500}
             /\ resp'.status = 500 => faults' = faults + 1]_vars

\* C11 witness: a push whose message.data is base64 of a text that is not
\* JSON was answered 200 and stored with the request body as its data.
PushDecodeWitness ==
  /\ resp.op = "push" /\ resp.status = 200
  /\ Len(pushStore) = 1
  /\ pushStore[1].rawPayload.data = Base64Text
  /\ pushStore[1].data.envelope
  /\ pushStore[1].data.body = pushStore[1].rawPayload

\* C12: every entry of the pull store, pulled or streamed, carries the
\* transport's message identifier as messageId and the decode of that message's
\* bytes as data: the parsed value when the bytes are JSON, the UTF-8 string
\* otherwise; entries of the same message have the same data whichever
\* transport stored them; and neither transport fails unless the environment did.
PullDecodeSame ==
  /\ \A k \in 1..Len(pullStore) :
       LET e == pullStore[k]
           bytes == MsgData(e.messageId)
       IN /\ e.type \in {"pull", "pull-stream"}
          /\ e.messageId \in MsgIds
          /\ \E t \in 0..now : e.id = ToString(t) \o "-" \o e.messageId
          /\ bytes = DataPurchased =>
               /\ e.data.json /\ e.data.sn
               /\ e.data.packageName = "com.x"
               /\ e.data.eventTimeMillis = "1700000000000"
               /\ e.data.notificationType = "4"
               /\ e.data.purchaseToken = "tok1"
               /\ e.data.subscriptionId = "sub1"
          /\ bytes = DataUnmapped =>
               /\ e.data.json /\ e.data.sn
               /\ e.data.notificationType = "999"
               /\ e.data.purchaseToken = "tok2"
               /\ e.data.subscriptionId = UNDEF
          /\ bytes = DataText => ~e.data.json /\ e.data.text = "not json"
          /\ \A j \in 1..Len(pullStore) :
               pullStore[j].messageId = e.messageId => pullStore[j].data = e.data
  /\ pullH.pc \in {"acking", "closing"} =>
       \A k \in 1..Len(pullH.batch) :
         \E j \in 1..Len(pullStore) :
           pullStore[j].messageId = pullH.batch[k] /\ pullStore[j].type = "pull"
  /\ (resp.op = "pull" /\ resp.status = 500) => faults > 0
  /\ resp.op = "stream" => faults > 0

\* C12 witness: the message that is not JSON was pulled and, before it was
\* acknowledged, streamed: two entries, one per transport, with the same string.
PullDecodeWitness ==
  /\ Len(pullStore) = 2
  /\ pullStore[1].type = "pull" /\ pullStore[2].type = "pull-stream"
  /\ pullStore[1].messageId = "m3" /\ pullStore[2].messageId = "m3"
  /\ pullStore[1].data.text = "not json" /\ pullStore[2].data.text = "not json"
  /\ resp.op = "pull" /\ resp.status = 200

\* C16: without a project id POST /pull and POST /pull/start answer 400, no
\* call to the transport is made or awaited, and the pull store, its file, the
\* acknowledged messages and the listener state do not change.
NoProjectRefused ==
  /\ [](~projectId =>
          /\ pullH.pc = "idle"
          /\ ~pullListener /\ handlers = 0
          /\ faults = 0
          /\ resp.op \in {"pull", "start"} => resp.status = 400)
  /\ [][~projectId => UNCHANGED <<pullVars, listenVars, acked, pullH, faults>>]_vars

\* C16 witness: without a project id a POST /pull was answered 400, with the
\* pull store empty and no listener.
NoProjectWitness ==
  /\ ~projectId
  /\ resp.op = "pull" /\ resp.status = 400
  /\ pullStore = << >> /\ ~pullListener

MappedCodes == {"1", "2", "3", "4", "5", "6", "7", "8", "9", "10", "11", "12", "13", "20"}

\* C13: in every enriched record notification.typeName is the name of the
\* notificationType code when the code is one of the 14 mapped codes (14
\* distinct names, 4 being SUBSCRIPTION_PURCHASED) and UNKNOWN for every other
\* integer code and for a missing code; the run records the notification
\* whatever its code and fails only when the file write threw.
TypeNameMapped ==
  /\ \A k \in 1..Len(subscriptionsStore) :
       LET c == subscriptionsStore[k].notification.type
           name == subscriptionsStore[k].notification.typeName
       IN /\ c = pullStore[1].data.notificationType
          /\ c \in MappedCodes => name = NOTIFICATION_TYPES[c] /\ name # "UNKNOWN"
          /\ c = "4" => name = "SUBSCRIPTION_PURCHASED"
          /\ c = "13" => name = "SUBSCRIPTION_EXPIRED"
          /\ c = "20" => name = "SUBSCRIPTION_PENDING_PURCHASE_CANCELED"
          /\ c \in (Codes \ MappedCodes) => name = "UNKNOWN"
  /\ Cardinality({NOTIFICATION_TYPES[c] : c \in MappedCodes}) = 14
  /\ DOMAIN NOTIFICATION_TYPES = MappedCodes
  /\ resp.op = "fetch" =>
       /\ resp.total = 1
       /\ resp.status = 500 => faults > 0

\* C13 witness: a run answered 200 after it recorded the notification of
\* code 999 as UNKNOWN.
TypeNameWitness ==
  /\ resp.op = "fetch" /\ resp.status = 200 /\ resp.appended = 1
  /\ Len(subscriptionsStore) = 1
  /\ subscriptionsStore[1].notification.type = "999"
  /\ subscriptionsStore[1].notification.typeName = "UNKNOWN"

HasRecordOf(subs, m) == \E k \in 1..Len(subs) : subs[k].messageId = m

\* C14 as stated: over the whole behaviour a record is pushed for a messageId
\* at most once (never for a messageId a record was pushed for before), and a
\* record that stays in the store stays as it was written.
RecordCreatedOnceEver ==
  [][(\A k \in 1..Len(subscriptionsStore') :
        k > Len(subscriptionsStore)
          => subscriptionsStore'[k].messageId \notin created)
      /\ (\A j \in 1..Len(subscriptionsStore) :
            j <= Len(subscriptionsStore')
              => subscriptionsStore'[j] = subscriptionsStore[j])]_vars

\* C14 amended: the store never holds two records of one messageId, and a
\* step either leaves the store as it is, pushes one record of a messageId the
\* store has no record of, or is DELETE /subscriptions emptying the store;
\* so a record is created at most once for as long as the store is not
\* cleared, and is never modified while it is stored.
RecordOncePerStoreLife ==
  /\ [](\A j, k \in 1..Len(subscriptionsStore) :
          subscriptionsStore[j].messageId = subscriptionsStore[k].messageId => j = k)
  /\ [][\/ subscriptionsStore' = subscriptionsStore
        \/ /\ Len(subscriptionsStore') = Len(subscriptionsStore) + 1
           /\ SubSeq(subscriptionsStore', 1, Len(subscriptionsStore)) = subscriptionsStore
           /\ ~HasRecordOf(subscriptionsStore,
                           subscriptionsStore'[Len(subscriptionsStore')].messageId)
           /\ \E i \in RunIds : runs[i].pc \in {"v2", "v1"}
        \/ /\ subscriptionsStore' = << >>
           /\ resp'.op = "deleteSubscriptions"]_vars

\* C14 witness: the second run of the behaviour started on an empty store and
\* pushed a record; the first run had pushed one for the same notification, so
\* DELETE /subscriptions came between them.
RecordRecreatedWitness ==
  /\ fetches = 2
  /\ resp.op = "fetch" /\ resp.status = 200
  /\ resp.subsAtStart = << >> /\ resp.appended = 1
  /\ Len(subscriptionsStore) = 1
  /\ subscriptionsStore[1].messageId \in created

\* s without its k-th element.
RemoveAt(s, k) == [j \in 1..(Len(s) - 1) |-> IF j < k THEN s[j] ELSE s[j + 1]]

IsPrefix(s, t) == Len(s) <= Len(t) /\ SubSeq(t, 1, Len(s)) = s

\* C15: the push store holds push entries and the pull store pull and
\* pull-stream entries; a step changes the push store only by POST /push
\* appending one entry or DELETE /push/:id removing one, and the pull store
\* only by POST /pull appending its batch, the stream callback appending one
\* entry, or DELETE /pull/:id removing one; the entries already there keep
\* their content and order, and the steps of the enrichment run, of the lookup
\* and of DELETE /subscriptions change neither store.
NotificationsAppendOnly ==
  /\ []((\A k \in 1..Len(pushStore) : pushStore[k].type = "push")
        /\ (\A k \in 1..Len(pullStore) : pullStore[k].type \in {"pull", "pull-stream"}))
  /\ [][/\ \/ pushStore' = pushStore
           \/ /\ resp'.op = "push"
              /\ Len(pushStore') = Len(pushStore) + 1
              /\ IsPrefix(pushStore, pushStore')
           \/ /\ resp'.op = "deletePush"
              /\ \E k \in 1..Len(pushStore) : pushStore' = RemoveAt(pushStore, k)
        /\ \/ pullStore' = pullStore
           \/ /\ pullH.pc = "pulling" /\ pullH'.pc = "acking"
              /\ Len(pullStore') = Len(pullStore) + Len(pullH'.batch)
              /\ IsPrefix(pullStore, pullStore')
              /\ \A k \in (Len(pullStore) + 1)..Len(pullStore') :
                   pullStore'[k].type = "pull"
           \/ /\ handlers > 0 /\ pullH' = pullH
              /\ Len(pullStore') = Len(pullStore) + 1
              /\ IsPrefix(pullStore, pullStore')
              /\ pullStore'[Len(pullStore')].type = "pull-stream"
           \/ /\ resp'.op = "deletePull"
              /\ \E k \in 1..Len(pullStore) : pullStore' = RemoveAt(pullStore, k)
        /\ (runs' # runs \/ lookup' # lookup \/ subscriptionsStore' # subscriptionsStore
              \/ (resp' # resp /\ resp'.op \in {"fetch", "lookup", "deleteSubscriptions",
                                                "start", "stop"}))
             => UNCHANGED <<pushStore, pushFile, pullStore, pullFile>>]_vars

\* C15 witness: a DELETE /pull/:id answered 204 on a store of two entries and
\* left the other one, in the store and in the file.
AppendOnlyWitness ==
  /\ resp.op = "deletePull" /\ resp.status = 204
  /\ Len(pullStore) = 1 /\ pullFile = pullStore
  /\ pullStore[1].messageId = "m2"

\* C17: an exception raised inside a handler is caught by that handler: none
\* leaves the handler function.
HandlersCatchExceptions == ~resp.escaped

\* What the batch run selects from the outcomes d2 of v2 and d1 of v1
\* (index.js 404-410): v2 and its response when v2 returned one, else v1 and
\* whatever v1 returned.
BatchSelects(d2, d1) ==
  IF d2.present THEN [apiVersion |-> "v2", apiResponse |-> d2]
  ELSE [apiVersion |-> "v1", apiResponse |-> d1]

LookupOutcome(calls) ==
  BatchSelects(calls[1].result,
               IF Len(calls) = 2 THEN calls[2].result ELSE NoDetails)

\* C18 as stated: the lookup calls v2 first and v1 exactly when v2 returned
\* nothing, whether or not a subscriptionId was supplied, and a lookup that
\* found details answers with the apiVersion and apiResponse the batch run
\* selects.
LookupFallbackAsBatch ==
  (resp.op = "lookup" /\ resp.status # 400) =>
    LET c == resp.calls
    IN /\ Len(c) \in {1, 2}
       /\ c[1].api = "v2"
       /\ Len(c) = 2 <=> ~c[1].result.present
       /\ Len(c) = 2 => c[2].api = "v1"
       /\ resp.status = 200 =>
            /\ resp.apiVersion = LookupOutcome(c).apiVersion
            /\ resp.apiResponse = LookupOutcome(c).apiResponse

\* C18 amended: the lookup calls v2 first and v1 exactly when v2 returned
\* nothing and the caller supplied a subscriptionId; a lookup that found
\* details answers with the apiVersion and apiResponse the batch run selects
\* from the same outcomes, and a lookup that found none answers 404.
LookupFallbackGuarded ==
  (resp.op = "lookup" /\ resp.status # 400) =>
    LET c == resp.calls
    IN /\ Len(c) \in {1, 2}
       /\ c[1].api = "v2"
       /\ Len(c) = 2 <=> (~c[1].result.present /\ resp.subscriptionId \notin Falsy)
       /\ Len(c) = 2 => c[2].api = "v1"
       /\ resp.status \in {200, 404}
       /\ resp.status = 200 <=> LookupOutcome(c).apiResponse.present
       /\ resp.status = 200 =>
            /\ resp.apiVersion = LookupOutcome(c).apiVersion
            /\ resp.apiResponse = LookupOutcome(c).apiResponse

\* C18 witness: a lookup without subscriptionId answered 404 after v2 alone
\* returned nothing.
LookupGuardWitness ==
  /\ resp.op = "lookup" /\ resp.status = 404
  /\ resp.subscriptionId = UNDEF
  /\ Len(resp.calls) = 1 /\ ~resp.calls[1].result.present

\* C19: whenever no handler is between two awaits, every file holds what its
\* store holds.
SnapshotsMatchWhenQuiet ==
  Quiet =>
    /\ pushFile = pushStore
    /\ dataFile = store
    /\ pullFile = pullStore
    /\ subsFile = subscriptionsStore

\* C20: an answered run has a result for every notification with a
\* subscriptionNotification that is in the pull store at its end (under
\* SpecOverlap the pull store only loses entries, so these were there for the
\* whole run).
FetchCoversStore ==
  resp.op = "fetch" =>
    LET qs == WithSubscriptionNotification(resp.pullAtEnd)
    IN \A k \in 1..Len(qs) :
         \E j \in 1..Len(resp.subscriptions) :
           resp.subscriptions[j].rec.messageId = qs[k].messageId

UniqueIds(s) == \A j, k \in 1..Len(s) : s[j].id = s[k].id => j = k

\* C21: no collection holds two entries of one id, and a GET /<collection>/:id
\* that follows a successful DELETE of the same id answers 404.
EntryIdsUnique ==
  /\ UniqueIds(pushStore)
  /\ UniqueIds(pullStore)
  /\ UniqueIds(store)
  /\ (resp.op \in {"getPush", "getPull", "getData"} /\ resp.afterDelete)
       => resp.status = 404
====
